---- MODULE Spec2Model ----
(***************************************************************************)
(* quantum-random-ama-questions.py: the random-key assignment pipeline.    *)
(*                                                                         *)
(* One invocation of the script ("run") takes a batch of comments, gives   *)
(* every comment a random key (from the ANU quantum API through the        *)
(* qrng_cache.json cache, or from the pseudo-random generator), aborts on  *)
(* a key collision, sorts by key, renders and optionally uploads.          *)
(*                                                                         *)
(* The state is the cache file (store) and, per process, the local         *)
(* variables of the run in progress and its position (pc).  A run is cut   *)
(* into steps at its points of I/O: cache read, each API call, cache       *)
(* write, render, upload.                                                  *)
(***************************************************************************)
EXTENDS Integers, Sequences, FiniteSets, TLC

VARIABLES
    store,   \* the file qrng_cache.json: [kind, map]
    run,     \* run[p]: the local variables of process p's invocation
    runs,    \* number of invocations started so far
    prev     \* the last finished quantum run that resolved its keys (history)

vars == <<store, run, runs, prev>>

----------------------------------------------------------------------------
(* Program constants *)

MAX_QUESTIONS == 500

max_bytes_per_call == 1024

----------------------------------------------------------------------------
(* Bounds of the model *)

\* longest batch whose texts are enumerated freely
MaxLen == 2

\* invocations of the script in one behaviour
MaxRuns == 2

\* SpecProvider hands the provider every key count up to MaxCount, and the
\* counts of ProviderCounts beyond it
MaxCount == 6

Procs == {1, 2}

\* the processes of the sequential specification: one invocation at a time
SeqProcs == {1}

Texts == {"A", "B"}

\* batch sizes around the capacity limit (all comments with the same text)
BigSizes == {MAX_QUESTIONS - 1, MAX_QUESTIONS, MAX_QUESTIONS + 1}

SmallBatches == UNION {[1..n -> Texts] : n \in 0..MaxLen}

BigBatches == {[i \in 1..n |-> "A"] : n \in BigSizes}


----------------------------------------------------------------------------
(* Arithmetic helpers *)

Max(a, b) == IF a >= b THEN a ELSE b

Min(a, b) == IF a <= b THEN a ELSE b

\* math.ceil(a / b) for a >= 0, b > 0
CeilDiv(a, b) == (a + b - 1) \div b

RECURSIVE Pow2(_)
Pow2(k) == IF k = 0 THEN 1 ELSE 2 * Pow2(k - 1)

\* floor(log2(m)) for m >= 1
RECURSIVE FloorLog2(_)
FloorLog2(m) == IF m <= 1 THEN 0 ELSE 1 + FloorLog2(m \div 2)

\* ceil(log2(m)) for m >= 1
CeilLog2(m) == IF Pow2(FloorLog2(m)) = m THEN FloorLog2(m) ELSE FloorLog2(m) + 1

Range(s) == {s[i] : i \in 1..Len(s)}

\* no value occurs twice in s
NoDuplicates(s) == Cardinality(Range(s)) = Len(s)

----------------------------------------------------------------------------
(* get_question_hash: SHA-1 of the text (the first 8 hex digits shown) *)

get_question_hash(text) ==
    CASE text = "A" -> "6dcd4ce2"
      [] text = "B" -> "ae4f281d"
      [] text = "C" -> "32096c2e"
      [] text = "D" -> "50c9e8d5"

\* int(2 * math.log2(n) + 10) is floor(log2(n^2)) + 10: int() truncates
BitsFor(n) == Max(16, FloorLog2(n * n) + 10)

----------------------------------------------------------------------------
(* The cache file and the cache dictionary *)

\* a dict with no keys
EmptyMap == [k \in {} |-> 0]

\* d.update(e): the entries of e replace and extend those of d
Update(d, e) == [k \in DOMAIN d \cup DOMAIN e |-> IF k \in DOMAIN e THEN e[k] ELSE d[k]]

(* What qrng_cache.json can hold:                                          *)
(*   absent       no such file                                             *)
(*   json         a JSON object {bits: {hash: number}}, as json.dump wrote *)
(*   truncated    not JSON (a write that stopped after open(.., 'w'))      *)
(*   undecodable  bytes that are not UTF-8, or JSON that is not an object  *)
StoreKinds == {"absent", "json", "truncated", "undecodable"}

AbsentStore == [kind |-> "absent", map |-> EmptyMap]

TruncatedStore == [kind |-> "truncated", map |-> EmptyMap]

UndecodableStore == [kind |-> "undecodable", map |-> EmptyMap]

JsonStore(cache) == [kind |-> "json", map |-> cache]

\* the entries <<bits, hash, key>> a reader finds in the file
StoreEntries(st) ==
    IF st.kind = "json"
    THEN {<<b, h, st.map[b][h]>> : <<b, h>> \in
              UNION {{<<b2, h2>> : h2 \in DOMAIN st.map[b2]} : b2 \in DOMAIN st.map}}
    ELSE {}

(* load_qrng_cache, by what the read does:                                 *)
(*   "ok"      json.load returned the object                               *)
(*   "missing" os.path.exists is false: {}                                 *)
(*   "warned"  IOError or JSONDecodeError caught: warning, {}              *)
(*   "raised"  an exception the except clause does not name               *)
(*             (UnicodeDecodeError), or an object that is no dict and      *)
(*             fails at line 214/215 (TypeError): the run dies             *)
LoadOutcomes(st) ==
    CASE st.kind = "absent"      -> {"missing"}
      [] st.kind = "json"        -> {"ok", "warned"}
      [] st.kind = "truncated"   -> {"warned"}
      [] st.kind = "undecodable" -> {"raised", "warned"}

load_qrng_cache(st, outcome) == IF outcome = "ok" THEN st.map ELSE EmptyMap

(* save_qrng_cache, by what the write does:                                *)
(*   "ok"          the file holds the cache                                *)
(*   "open_failed" open(.., 'w') raised IOError: warning, file untouched   *)
(*   "write_failed" open truncated the file and json.dump raised IOError:  *)
(*                 warning, the file is left cut short                     *)
SaveOutcomes == {"ok", "open_failed", "write_failed"}

\* the sub-map d holds under key k, empty when it has none
SubMap(d, k) == IF k \in DOMAIN d THEN d[k] ELSE EmptyMap

\* a write that keeps what the file holds beside the cache (read, merge, write)
save_qrng_cache_merging(st, cache, outcome) ==
    CASE outcome = "ok"           ->
             JsonStore([k \in DOMAIN st.map \cup DOMAIN cache |->
                           Update(SubMap(st.map, k), SubMap(cache, k))])
      [] outcome = "open_failed"  -> st
      [] outcome = "write_failed" -> TruncatedStore

save_qrng_cache(st, cache, outcome) ==
    CASE outcome = "ok"           -> JsonStore(cache)
      [] outcome = "open_failed"  -> st
      [] outcome = "write_failed" -> TruncatedStore

----------------------------------------------------------------------------
(* The ANU API's answers and the bit stream cut from them *)

(* A response's payload is given by its length and a generator:           *)
(* payload[k] = (base + step * k) % 256 for k = 0 .. len-1; call is the    *)
(* number of the request it answers.                                       *)
ResponsePatterns == {<<0, 0>>, <<255, 0>>, <<1, 1>>}

ByteOf(chunk, k) == (chunk.base + chunk.step * k) % 256

\* len(hex_string) of one call: two hex digits per payload element
HexLen(chunk) == 2 * chunk.len

\* hex digit d (from 0) of one call's hex_string, as a number 0..15
ChunkDigit(chunk, d) ==
    IF d % 2 = 0 THEN ByteOf(chunk, d \div 2) \div 16 ELSE ByteOf(chunk, d \div 2) % 16

\* hex digit g (from 0) of "".join(all_hex_data)
RECURSIVE HexDigitAt(_, _)
HexDigitAt(all_hex_data, g) ==
    IF g < HexLen(Head(all_hex_data))
    THEN ChunkDigit(Head(all_hex_data), g)
    ELSE HexDigitAt(Tail(all_hex_data), g - HexLen(Head(all_hex_data)))

\* character j (from 0) of binary_string: four bits per hex digit, leading zeros kept
BitAt(all_hex_data, j) == (HexDigitAt(all_hex_data, j \div 4) \div Pow2(3 - (j % 4))) % 2

\* int(binary_string[start : start + n], 2)
RECURSIVE BitsToInt(_, _, _)
BitsToInt(all_hex_data, start, n) ==
    IF n = 0 THEN 0
    ELSE 2 * BitsToInt(all_hex_data, start, n - 1) + BitAt(all_hex_data, start + n - 1)

\* the dict built by the loop of lines 143-148: a hash that occurs several
\* times in new_question_hashes keeps the number of its last occurrence
RECURSIVE LastIndexFrom(_, _, _)
LastIndexFrom(s, x, i) == IF s[i] = x THEN i ELSE LastIndexFrom(s, x, i - 1)

LastIndex(s, x) == LastIndexFrom(s, x, Len(s))

hash_to_random(new_question_hashes, bits_per_question, all_hex_data) ==
    [h \in Range(new_question_hashes) |->
        BitsToInt(all_hex_data,
                  (LastIndex(new_question_hashes, h) - 1) * bits_per_question,
                  bits_per_question)]

----------------------------------------------------------------------------
(* Sorting and pairing (process_comments_with_randomness, lines 494-502) *)

\* the last comment left out
PairsShort(comments, random_numbers) ==
    [i \in 1..(Len(comments) - 1) |->
        [key |-> random_numbers[i], text |-> comments[i], item |-> i]]

\* comment_random_pairs: (random_numbers[i], text, comment) for each comment;
\* a comment is identified by its place in the batch (its comment_url)
Pairs(comments, random_numbers) ==
    [i \in 1..Len(comments) |-> [key |-> random_numbers[i], text |-> comments[i], item |-> i]]

\* list.sort(key = first component): ascending and stable, so a pair's place
\* is one more than the number of pairs that sort before it (a smaller key,
\* or the same key and an earlier place)
SortByKey(pairs) ==
    LET n == Len(pairs)
        place == [i \in 1..n |->
                     1 + Cardinality({j \in 1..n :
                             \/ pairs[j].key < pairs[i].key
                             \/ pairs[j].key = pairs[i].key /\ j < i})]
                 \o <<>>   \* as a tuple: the places are computed once
    IN  [k \in 1..n |-> pairs[CHOOSE i \in 1..n : place[i] = k]]

----------------------------------------------------------------------------
(* The pseudo-random generator (random.randint, line 241) *)

\* the draws considered: every sequence over {0, 1, max_value} for a short
\* batch; all zero, or 0, 1, 2, ... for a long one
PseudoDraws(n, max_value) ==
    IF n <= MaxLen
    THEN [1..n -> {0, 1, max_value}]
    ELSE {[i \in 1..n |-> 0], [i \in 1..n |-> i - 1]}

----------------------------------------------------------------------------
(* The local state of one invocation *)

IdleRun ==
    [pc                 |-> "idle",
     outcome            |-> "none",
     comments           |-> <<>>,
     use_quantum        |-> FALSE,
     bits_per_question  |-> 0,
     question_hashes    |-> <<>>,
     cache_read         |-> "none",    \* what load_qrng_cache met, "none" before it ran
     loaded             |-> EmptyMap,  \* what load_qrng_cache returned
     qrng_cache         |-> EmptyMap,
     new_hashes         |-> <<>>,
     total_bytes_needed |-> 0,
     api_calls_needed   |-> 0,
     requested          |-> <<>>,      \* bytes_this_call of every request sent
     all_hex_data       |-> <<>>,
     cache_saved        |-> "none",    \* what save_qrng_cache met, "none" if not called
     random_numbers     |-> <<>>,
     output             |-> <<>>,      \* the sorted pairs behind the markdown table
     rendered           |-> FALSE,
     uploaded           |-> FALSE]

\* the number every text of a resolved run was given, as <<text, number>> pairs
AssignedKeys(r) == {<<r.comments[i], r.random_numbers[i]>> : i \in 1..Len(r.comments)}

NoPrev == [valid |-> FALSE, keys |-> {}, qrng_cache |-> EmptyMap]

bits_key(r) == ToString(r.bits_per_question)

bits_cache(r) == r.qrng_cache[bits_key(r)]

Resolved(r) == r.pc \in {"check", "render", "upload"} \/ (r.pc = "done" /\ r.outcome \in {"collision", "ok"})

----------------------------------------------------------------------------
(* Initial state: no invocation yet; the cache file is whatever the        *)
(* directory holds                                                         *)

Init ==
    /\ store \in {AbsentStore, UndecodableStore,
                  JsonStore([k \in {"16"} |-> [h \in {get_question_hash("A")} |-> 7]])}
    /\ run = [p \in Procs |-> IdleRun]
    /\ runs = 0
    /\ prev = NoPrev

----------------------------------------------------------------------------
(* The steps of one invocation *)

Goto(p, r) == run' = [run EXCEPT ![p] = r]

\* the run ends: normally (outcome "ok", "empty"), by sys.exit(1) or by an
\* exception nobody catches
End(r, how) == [r EXCEPT !.pc = "done", !.outcome = how]

\* the limit taken as inclusive
WithinLimitInclusive(total_questions) == total_questions <= MAX_QUESTIONS

\* line 200: assert total_questions < MAX_QUESTIONS
WithinLimit(total_questions) == total_questions < MAX_QUESTIONS

\* line 195
bits_for_run == BitsFor(MAX_QUESTIONS)

\* every hash taken as new, cached or not
NewHashesIgnoringCache(question_hashes, cached) == question_hashes

\* line 220: [h for h in question_hashes if h not in bits_cache]
NewHashes(question_hashes, cached) ==
    SelectSeq(question_hashes, LAMBDA h : h \notin DOMAIN cached)

\* the list compared with itself instead of with its set
HasCollisionNever(random_numbers) == Len(random_numbers) # Len(random_numbers)

\* line 488: len(set(random_numbers)) != len(random_numbers)
HasCollision(random_numbers) ==
    Cardinality(Range(random_numbers)) # Len(random_numbers)

(* process_comments_with_randomness is entered (lines 477-485) and         *)
(* get_random_numbers_for_questions runs up to its branch (lines 195-208). *)
Enter(p, comments, use_quantum_randomness) ==
    LET r0 == [IdleRun EXCEPT !.comments = comments,
                              !.use_quantum = use_quantum_randomness]
        r1 == [r0 EXCEPT !.bits_per_question = bits_for_run]
    IN  Goto(p, IF Len(comments) = 0 THEN End(r0, "empty")
                ELSE IF ~WithinLimit(Len(comments)) THEN End(r1, "capacity")
                ELSE [r1 EXCEPT
                        !.question_hashes =
                            [i \in 1..Len(comments) |-> get_question_hash(comments[i])],
                        !.pc = IF use_quantum_randomness THEN "load" ELSE "pseudo"])

(* The script is invoked on a batch. The batches around the capacity limit *)
(* are tried as the first invocation of a behaviour.                       *)
StartRun(p) ==
    /\ run[p].pc \in {"idle", "done"}
    /\ runs < MaxRuns
    /\ runs' = runs + 1
    /\ prev' = IF run[p].pc = "done" /\ run[p].use_quantum /\ Resolved(run[p])
               THEN [valid |-> TRUE, keys |-> AssignedKeys(run[p]),
                     qrng_cache |-> run[p].qrng_cache]
               ELSE NoPrev
    /\ \/ \E comments \in SmallBatches, use_quantum_randomness \in BOOLEAN :
            Enter(p, comments, use_quantum_randomness)
       \/ /\ runs = 0
          /\ \E comments \in BigBatches, use_quantum_randomness \in BOOLEAN :
               Enter(p, comments, use_quantum_randomness)
    /\ UNCHANGED store

\* the file written as soon as the sub-map of this bit width is in the dict,
\* before any number is drawn
LoadCacheSaving(p) ==
    LET r == run[p] IN
    /\ r.pc = "load"
    /\ \E met \in LoadOutcomes(store) :
         IF met = "raised"
         THEN /\ Goto(p, End([r EXCEPT !.cache_read = met], "cache_error"))
              /\ UNCHANGED store
         ELSE LET got   == load_qrng_cache(store, met)
                  cache == IF bits_key(r) \in DOMAIN got
                           THEN got
                           ELSE Update(got, [k \in {bits_key(r)} |-> EmptyMap])
                  new   == NewHashes(r.question_hashes, cache[bits_key(r)])
              IN  /\ Goto(p, [r EXCEPT !.cache_read = met,
                                       !.loaded = got,
                                       !.qrng_cache = cache,
                                       !.new_hashes = new,
                                       !.pc = IF Len(new) > 0 THEN "provider" ELSE "resolve"])
                  /\ store' = save_qrng_cache(store, cache, "ok")
    /\ UNCHANGED <<runs, prev>>

(* Lines 210-220: read the cache, take the sub-map of this bit width, find *)
(* the hashes it lacks.                                                    *)
LoadCache(p) ==
    LET r == run[p] IN
    /\ r.pc = "load"
    /\ \E met \in LoadOutcomes(store) :
         IF met = "raised"
         THEN Goto(p, End([r EXCEPT !.cache_read = met], "cache_error"))
         ELSE LET got   == load_qrng_cache(store, met)
                  cache == IF bits_key(r) \in DOMAIN got
                           THEN got
                           ELSE Update(got, [k \in {bits_key(r)} |-> EmptyMap])
                  new   == NewHashes(r.question_hashes, cache[bits_key(r)])
              IN  Goto(p, [r EXCEPT !.cache_read = met,
                                    !.loaded = got,
                                    !.qrng_cache = cache,
                                    !.new_hashes = new,
                                    !.pc = IF Len(new) > 0 THEN "provider" ELSE "resolve"])
    /\ UNCHANGED <<store, runs, prev>>

(* get_quantum_randomness_for_new_questions, lines 77-89: the credential   *)
(* (read from the environment) and the size of the request.                *)
ProviderEnter(p) ==
    LET r == run[p]
        num_new_questions == Len(r.new_hashes)
        total_bits_needed == num_new_questions * r.bits_per_question
        total_bytes       == CeilDiv(total_bits_needed, 8)
    IN
    /\ r.pc = "provider"
    /\ \E ANU_API_KEY \in BOOLEAN :
         Goto(p, IF ~ANU_API_KEY THEN End(r, "config_error")
                 ELSE IF num_new_questions = 0 THEN [r EXCEPT !.pc = "slice"]
                 ELSE [r EXCEPT !.total_bytes_needed = total_bytes,
                                !.api_calls_needed = CeilDiv(total_bytes, max_bytes_per_call),
                                !.pc = "api"])
    /\ UNCHANGED <<store, runs, prev>>

\* every call asking for the maximum
BytesThisCallFull(total_bytes_needed, call_num) == max_bytes_per_call

\* lines 96-97, for call number call_num (from 0)
BytesThisCall(total_bytes_needed, call_num) ==
    Min(max_bytes_per_call, total_bytes_needed - call_num * max_bytes_per_call)

(* One turn of the loop of lines 95-134: one request, one response.        *)
ApiCall(p) ==
    LET r == run[p]
        call_num == Len(r.all_hex_data)
        bytes_this_call == BytesThisCall(r.total_bytes_needed, call_num)
        sent == [r EXCEPT !.requested = Append(@, bytes_this_call)]
    IN
    /\ r.pc = "api"
    /\ \/ \E failure \in {"http_error", "not_success", "wrong_length"} :
            \* raise_for_status or a timeout; success false; a payload of
            \* another length than asked for
            Goto(p, End(sent, failure))
       \/ \E pattern \in ResponsePatterns :
            Goto(p, [sent EXCEPT
                       !.all_hex_data = Append(@, [call |-> call_num,
                                                   len  |-> bytes_this_call,
                                                   base |-> pattern[1],
                                                   step |-> pattern[2]]),
                       !.pc = IF call_num + 1 < r.api_calls_needed THEN "api" ELSE "slice"])
    /\ UNCHANGED <<store, runs, prev>>

(* Lines 137-150 and 228: cut the numbers out of the bit stream and merge  *)
(* them into the sub-map of this bit width.                                *)
SliceAndUpdate(p) ==
    LET r == run[p]
        new_random_numbers ==
            IF Len(r.new_hashes) = 0 THEN EmptyMap
            ELSE hash_to_random(r.new_hashes, r.bits_per_question, r.all_hex_data)
    IN
    /\ r.pc = "slice"
    /\ Goto(p, [r EXCEPT !.qrng_cache[bits_key(r)] = Update(@, new_random_numbers),
                         !.pc = "save"])
    /\ UNCHANGED <<store, runs, prev>>

\* the write left out when two hashes of the batch have the same number
SaveCacheUnlessCollision(p) ==
    LET r == run[p]
        numbers == [i \in 1..Len(r.question_hashes) |-> bits_cache(r)[r.question_hashes[i]]]
    IN
    /\ r.pc = "save"
    /\ IF Cardinality(Range(numbers)) < Cardinality(Range(r.question_hashes))
       THEN /\ Goto(p, [r EXCEPT !.pc = "resolve"])
            /\ UNCHANGED store
       ELSE \E met \in SaveOutcomes :
              /\ store' = save_qrng_cache(store, r.qrng_cache, met)
              /\ Goto(p, [r EXCEPT !.cache_saved = met, !.pc = "resolve"])
    /\ UNCHANGED <<runs, prev>>

(* Line 229: save_qrng_cache(qrng_cache).                                  *)
SaveCache(p) ==
    LET r == run[p] IN
    /\ r.pc = "save"
    /\ \E met \in SaveOutcomes :
         /\ store' = save_qrng_cache(store, r.qrng_cache, met)
         /\ Goto(p, [r EXCEPT !.cache_saved = met, !.pc = "resolve"])
    /\ UNCHANGED <<runs, prev>>

(* Line 235: random_numbers = [bits_cache[h] for h in question_hashes].    *)
Resolve(p) ==
    LET r == run[p] IN
    /\ r.pc = "resolve"
    /\ Goto(p, [r EXCEPT !.random_numbers =
                             [i \in 1..Len(r.question_hashes) |->
                                 bits_cache(r)[r.question_hashes[i]]],
                         !.pc = "check"])
    /\ UNCHANGED <<store, runs, prev>>

\* the pseudo branch writing its (empty) cache dictionary to the file
PseudoRandomSaving(p) ==
    LET r == run[p] IN
    /\ r.pc = "pseudo"
    /\ \E draw \in PseudoDraws(Len(r.comments), Pow2(r.bits_per_question) - 1) :
         Goto(p, [r EXCEPT !.random_numbers = draw, !.pc = "check"])
    /\ store' = save_qrng_cache(store, r.qrng_cache, "ok")
    /\ UNCHANGED <<runs, prev>>

(* Lines 240-241: one pseudo-random number per comment; no cache.          *)
PseudoRandom(p) ==
    LET r == run[p] IN
    /\ r.pc = "pseudo"
    /\ \E draw \in PseudoDraws(Len(r.comments), Pow2(r.bits_per_question) - 1) :
         Goto(p, [r EXCEPT !.random_numbers = draw, !.pc = "check"])
    /\ UNCHANGED <<store, runs, prev>>

(* Lines 488-492: sys.exit(1) when two comments have the same number.      *)
CheckCollisions(p) ==
    LET r == run[p] IN
    /\ r.pc = "check"
    /\ Goto(p, IF HasCollision(r.random_numbers) THEN End(r, "collision")
               ELSE [r EXCEPT !.pc = "render"])
    /\ UNCHANGED <<store, runs, prev>>

(* Lines 494-545: pair, sort by number, build the markdown table; then     *)
(* line 549 reads upload_gist.                                             *)
Render(p) ==
    LET r == run[p]
        out == [r EXCEPT !.output = SortByKey(Pairs(r.comments, r.random_numbers)),
                         !.rendered = TRUE]
    IN
    /\ r.pc = "render"
    /\ \E upload_gist \in BOOLEAN :
         Goto(p, IF upload_gist THEN [out EXCEPT !.pc = "upload"] ELSE End(out, "ok"))
    /\ UNCHANGED <<store, runs, prev>>

(* Lines 550-567: the upload succeeds or prints its failure; either way    *)
(* the run ends normally.                                                  *)
Upload(p) ==
    LET r == run[p] IN
    /\ r.pc = "upload"
    /\ \E accepted \in BOOLEAN :
         Goto(p, End([r EXCEPT !.uploaded = accepted], "ok"))
    /\ UNCHANGED <<store, runs, prev>>

Step(p) ==
    \/ StartRun(p)
    \/ LoadCache(p)
    \/ ProviderEnter(p)
    \/ ApiCall(p)
    \/ SliceAndUpdate(p)
    \/ SaveCache(p)
    \/ Resolve(p)
    \/ PseudoRandom(p)
    \/ CheckCollisions(p)
    \/ Render(p)
    \/ Upload(p)

\* the script is invoked again and again, one invocation at a time
Next == \E p \in SeqProcs : Step(p)

Spec == Init /\ [][Next]_vars

----------------------------------------------------------------------------
(* get_quantum_randomness_for_new_questions on its own: any number of new  *)
(* hashes, at the bit widths line 195 can give                             *)

\* key counts whose byte totals lie at the 1024-byte limit of one call:
\* 16 bits: 512 -> 1024, 513 -> 1026, 1024 -> 2048 bytes;
\* 27 bits: 303 -> 1023, 304 -> 1026, 607 -> 2049 bytes
ProviderCounts == (1..MaxCount) \cup {303, 304, 512, 513, 607, 1024}

ProviderBits == {16, BitsFor(MAX_QUESTIONS)}

InitProvider ==
    /\ store = AbsentStore
    /\ runs = 1
    /\ prev = NoPrev
    /\ \E count \in ProviderCounts, bits \in ProviderBits :
         run = [p \in Procs |->
                  IF p = 1
                  THEN [IdleRun EXCEPT
                          !.pc = "provider",
                          !.use_quantum = TRUE,
                          !.bits_per_question = bits,
                          !.cache_read = "missing",
                          !.qrng_cache = [k \in {ToString(bits)} |-> EmptyMap],
                          !.new_hashes = [i \in 1..count |-> get_question_hash("A")]]
                  ELSE IdleRun]

NextProvider == ProviderEnter(1) \/ ApiCall(1) \/ SliceAndUpdate(1)

SpecProvider == InitProvider /\ [][NextProvider]_vars

----------------------------------------------------------------------------
(* Two invocations of the script at once, in quantum mode, beside the same *)
(* qrng_cache.json: the script takes no lock, so the steps of the two      *)
(* processes interleave freely between their points of I/O.                *)

ConcurrentBatches == {<<"A">>, <<"B">>, <<"A", "B">>}

StartConcurrent(p) ==
    /\ run[p].pc = "idle"
    /\ runs' = runs + 1
    /\ \E comments \in ConcurrentBatches : Enter(p, comments, TRUE)
    /\ UNCHANGED <<store, prev>>

NextConcurrent ==
    \E p \in Procs :
        \/ StartConcurrent(p)
        \/ LoadCache(p)
        \/ ProviderEnter(p)
        \/ ApiCall(p)
        \/ SliceAndUpdate(p)
        \/ SaveCache(p)
        \/ Resolve(p)
        \/ CheckCollisions(p)
        \/ Render(p)
        \/ Upload(p)

SpecConcurrent == Init /\ [][NextConcurrent]_vars

----------------------------------------------------------------------------
(* The script invoked again, in quantum mode, on batches that share two    *)
(* texts, one of them with a third text the earlier batches did not have.  *)

RerunBatches == {<<"A", "B">>, <<"B", "A">>, <<"A", "B", "C">>}

StartRerun(p) ==
    /\ run[p].pc \in {"idle", "done"}
    /\ runs < MaxRuns
    /\ runs' = runs + 1
    /\ prev' = IF run[p].pc = "done" /\ run[p].use_quantum /\ Resolved(run[p])
               THEN [valid |-> TRUE, keys |-> AssignedKeys(run[p]),
                     qrng_cache |-> run[p].qrng_cache]
               ELSE NoPrev
    /\ \E comments \in RerunBatches : Enter(p, comments, TRUE)
    /\ UNCHANGED store

NextRerun ==
    \E p \in SeqProcs :
        \/ StartRerun(p)
        \/ LoadCache(p)
        \/ ProviderEnter(p)
        \/ ApiCall(p)
        \/ SliceAndUpdate(p)
        \/ SaveCache(p)
        \/ Resolve(p)
        \/ CheckCollisions(p)
        \/ Render(p)
        \/ Upload(p)

SpecRerun == Init /\ [][NextRerun]_vars

----------------------------------------------------------------------------
(* Properties *)

Aborted(r) == r.pc = "done" /\ r.outcome \notin {"ok", "empty"}

\* the run got as far as the provider's request loop
ProviderSized(r) == r.api_calls_needed > 0

\* the provider returned its dict to line 225
ProviderReturned(r) ==
    ProviderSized(r) /\ (r.pc \in {"slice", "save", "resolve"} \/ Resolved(r))

RECURSIVE SumSeq(_)
SumSeq(s) == IF Len(s) = 0 THEN 0 ELSE Head(s) + SumSeq(Tail(s))

TextsOf(keys) == {k[1] : k \in keys}

(* C1. Determinism under quantum + cache: when a quantum run S2 follows a  *)
(* quantum run S1, every text of S1 is in S2, and S2 read from the file    *)
(* exactly the cache S1 ended with, every item of S2 whose text was in S1  *)
(* has the number it had in S1.                                            *)
C1_Determinism ==
    \A p \in Procs :
        LET r == run[p] IN
        (/\ prev.valid
         /\ r.use_quantum
         /\ Resolved(r)
         /\ r.cache_read = "ok"
         /\ r.loaded = prev.qrng_cache
         /\ TextsOf(prev.keys) \subseteq Range(r.comments))
        => \A i \in 1..Len(r.comments) : \A k \in prev.keys :
               k[1] = r.comments[i] => r.random_numbers[i] = k[2]

\* S2 = S1 plus a text S1 did not have, which gets a fresh number
C1_Witness ==
    \E p \in Procs :
        LET r == run[p] IN
        /\ prev.valid
        /\ r.use_quantum
        /\ Resolved(r)
        /\ r.cache_read = "ok"
        /\ r.loaded = prev.qrng_cache
        /\ TextsOf(prev.keys) # {}
        /\ TextsOf(prev.keys) \subseteq Range(r.comments)
        /\ Range(r.comments) \ TextsOf(prev.keys) # {}
        /\ Len(r.requested) > 0

(* C2. Collision handling: in either mode a run whose items do not all     *)
(* have different numbers ends at the collision check, by sys.exit(1),     *)
(* with nothing rendered and nothing uploaded, and with the colliding      *)
(* numbers as they were drawn (no second draw); a run that renders or      *)
(* uploads has pairwise different numbers.                                 *)
C2_CollisionAborts ==
    \A p \in Procs :
        LET r == run[p] IN
        /\ (Resolved(r) /\ r.pc # "check" /\ ~NoDuplicates(r.random_numbers))
             => /\ r.pc = "done"
                /\ r.outcome = "collision"
                /\ ~r.rendered
                /\ r.output = <<>>
                /\ ~r.uploaded
        /\ r.outcome = "collision" => ~NoDuplicates(r.random_numbers)
        /\ (r.rendered \/ r.uploaded \/ r.pc \in {"render", "upload"})
             => NoDuplicates(r.random_numbers)

\* two different texts were given the same number by the quantum source
C2_Witness ==
    \E p \in Procs :
        LET r == run[p] IN
        /\ r.outcome = "collision"
        /\ r.use_quantum
        /\ \E i, j \in 1..Len(r.comments) :
              r.comments[i] # r.comments[j] /\ r.random_numbers[i] = r.random_numbers[j]

(* C3. Bit width: every run uses max(16, ceil(2*log2(maxBatchSize) + 10)) *)
(* bits, whatever the batch; 28 for a maximum of 500.                      *)
(* (ceil(2*log2(n)) is ceil(log2(n^2)).)                                   *)
C3_BitWidthCeil ==
    \A p \in Procs :
        LET r == run[p] IN
        Len(r.question_hashes) > 0
        => /\ r.bits_per_question = Max(16, CeilLog2(MAX_QUESTIONS * MAX_QUESTIONS) + 10)
           /\ MAX_QUESTIONS = 500 => r.bits_per_question = 28

(* C4. Capacity: a run is rejected by the capacity assertion exactly when  *)
(* its batch has MAX_QUESTIONS items or more, and then before any cache    *)
(* access and any entropy request; 499 items pass, 500 do not.             *)
C4_Capacity ==
    \A p \in Procs :
        LET r == run[p] IN
        r.pc # "idle"
        => /\ r.outcome = "capacity" <=> Len(r.comments) >= MAX_QUESTIONS
           /\ Len(r.comments) = 499 => r.outcome # "capacity"
           /\ Len(r.comments) = 500 => r.outcome = "capacity"
           /\ r.outcome = "capacity"
                => /\ r.pc = "done"
                   /\ r.cache_read = "none"
                   /\ r.cache_saved = "none"
                   /\ r.requested = <<>>
                   /\ r.random_numbers = <<>>
                   /\ ~r.rendered

C4_Witness ==
    \E p \in Procs :
        /\ run[p].outcome = "capacity"
        /\ Len(run[p].comments) = 500

\* the output holds every comment of the batch exactly once, each with its
\* own text and number
IsPermutationOutput(r) ==
    /\ Len(r.output) = Len(r.comments)
    /\ \A i \in 1..Len(r.comments) :
          Cardinality({k \in 1..Len(r.output) : r.output[k].item = i}) = 1
    /\ \A k \in 1..Len(r.output) :
          /\ r.output[k].item \in 1..Len(r.comments)
          /\ r.output[k].text = r.comments[r.output[k].item]
          /\ r.output[k].key = r.random_numbers[r.output[k].item]

\* the run was stopped by its surroundings: the cache file, the credential,
\* the API
StoppedByFailure(r) ==
    r.outcome \in {"cache_error", "config_error", "http_error", "not_success", "wrong_length"}

(* C5 as claimed. Bijection: every run on a non-empty batch below the      *)
(* maximum size, whatever its texts and its mode, ends with an output that *)
(* is a permutation of the batch (runs stopped by a failure of the cache   *)
(* file, the credential or the API set aside).                             *)
C5_AlwaysPermutation ==
    \A p \in Procs :
        LET r == run[p] IN
        (/\ r.pc = "done"
         /\ Len(r.comments) > 0
         /\ Len(r.comments) < MAX_QUESTIONS
         /\ ~StoppedByFailure(r))
        => r.rendered /\ IsPermutationOutput(r)

(* C5 as amended. Bijection: every run on a non-empty batch below the      *)
(* maximum size that is not aborted (by a collision, or by a failure of    *)
(* the cache file, the credential or the API) ends with an output that is  *)
(* a permutation of the batch: same length, every item exactly once.       *)
C5_Bijection ==
    \A p \in Procs :
        LET r == run[p] IN
        /\ (/\ r.pc = "done"
            /\ Len(r.comments) > 0
            /\ Len(r.comments) < MAX_QUESTIONS
            /\ ~Aborted(r))
           => r.rendered /\ IsPermutationOutput(r)
        /\ r.rendered => IsPermutationOutput(r)

\* a finished run whose output is not in the order of the input
C5_Witness ==
    \E p \in Procs :
        LET r == run[p] IN
        /\ r.pc = "done"
        /\ r.outcome = "ok"
        /\ Len(r.comments) >= 2
        /\ r.output[1].item # 1

(* C6. Pseudo mode never touches the cache: no step of a pseudo-mode run   *)
(* changes the cache file, and a pseudo-mode run neither loads nor saves.  *)
C6_PseudoNoCache ==
    [][\A p \in Procs :
          (run'[p] # run[p] /\ ~run'[p].use_quantum)
          => /\ store' = store
             /\ run'[p].cache_read = "none"
             /\ run'[p].cache_saved = "none"]_vars

\* a pseudo-mode run has finished beside a cache file that holds entries
C6_Witness ==
    \E p \in Procs :
        /\ run[p].pc = "done"
        /\ run[p].outcome = "ok"
        /\ ~run[p].use_quantum
        /\ prev.valid
        /\ StoreEntries(store) # {}

(* C7. Cache entries are write-once and never deleted: an entry            *)
(* (bits, hash) -> key found in the file stays in it, with the same key,   *)
(* through every later step of every run, read or write failures included. *)
C7_WriteOnce == [][StoreEntries(store) \subseteq StoreEntries(store')]_vars

(* C8. Cache I/O failures are non-fatal: a run that could not read the     *)
(* cache file goes on with an empty cache, a run that could not write it   *)
(* goes on unsaved; neither is aborted for it, and every item still gets   *)
(* its number.                                                             *)
C8_CacheIONonFatal ==
    \A p \in Procs :
        LET r == run[p] IN
        /\ r.cache_read \in {"warned", "raised"}
             => /\ r.outcome # "cache_error"
                /\ r.loaded = EmptyMap
        /\ r.cache_saved \in {"open_failed", "write_failed"}
             => /\ r.pc = "resolve" \/ Resolved(r)
                /\ Resolved(r) => Len(r.random_numbers) = Len(r.comments)

\* the hashes of the batch the loaded cache does not hold for this bit width
NewAtLoad(r) ==
    {h \in Range(r.question_hashes) :
        bits_key(r) \notin DOMAIN r.loaded \/ h \notin DOMAIN r.loaded[bits_key(r)]}

FirstIndex(s, x) == CHOOSE i \in 1..Len(s) : s[i] = x /\ \A j \in 1..(i - 1) : s[j] # x

\* the i-th of them in the order of first appearance
NthNew(r, i) ==
    CHOOSE h \in NewAtLoad(r) :
        Cardinality({g \in NewAtLoad(r) :
            FirstIndex(r.question_hashes, g) < FirstIndex(r.question_hashes, h)}) = i - 1

(* C9. In quantum mode the provider is asked for exactly one key per hash  *)
(* the cache lacks, a hash counted once however often it occurs; the i-th  *)
(* key of the stream goes to the i-th such hash in order of first          *)
(* appearance; with no such hash there is no request and no write.         *)
C9_OneKeyPerNewHash ==
    \A p \in Procs :
        LET r == run[p]
            n == Cardinality(NewAtLoad(r))
        IN
        (r.use_quantum /\ r.cache_read \in {"ok", "missing", "warned"})
        => /\ Len(r.new_hashes) = n
           /\ ProviderSized(r)
                => r.total_bytes_needed = CeilDiv(n * r.bits_per_question, 8)
           /\ (ProviderReturned(r) /\ r.pc # "slice")
                => \A i \in 1..n :
                      bits_cache(r)[NthNew(r, i)] =
                          BitsToInt(r.all_hex_data, (i - 1) * r.bits_per_question,
                                    r.bits_per_question)
           /\ n = 0 => r.requested = <<>> /\ r.cache_saved = "none"

\* byte g (from 0) of the responses laid end to end in the order of the
\* requests: every response but the last is 1024 bytes long
StreamByte(all_hex_data, g) == ByteOf(all_hex_data[(g \div 1024) + 1], g % 1024)

\* bit j (from 0) of that byte stream, most significant bit of a byte first
StreamBit(all_hex_data, j) ==
    (StreamByte(all_hex_data, j \div 8) \div Pow2(7 - (j % 8))) % 2

RECURSIVE WindowValue(_, _, _, _)
WindowValue(all_hex_data, start, n, acc) ==
    IF n = 0 THEN acc
    ELSE WindowValue(all_hex_data, start + 1, n - 1, 2 * acc + StreamBit(all_hex_data, start))

\* key i (from 0): bits [i * bits, (i + 1) * bits) of the stream, big-endian
StreamWindow(all_hex_data, i, bits) == WindowValue(all_hex_data, i * bits, bits, 0)

(* C10. Batched entropy requests: for count >= 1 keys of bitsPerKey bits,  *)
(* totalBytes = ceil(count * bitsPerKey / 8), the provider sends its       *)
(* requests one after another, request k (from 0) asking for               *)
(* min(1024, totalBytes - 1024 * k) bytes, between 1 and 1024; when it     *)
(* returns it has sent exactly ceil(totalBytes / 1024) requests, for       *)
(* totalBytes bytes in all, and holds the responses in the order of the    *)
(* requests; the key of the last hash is cut from the responses laid end   *)
(* to end in that order.                                                   *)
C10_BatchedRequests ==
    \A p \in Procs :
        LET r     == run[p]
            total == CeilDiv(Len(r.new_hashes) * r.bits_per_question, 8)
            calls == CeilDiv(total, 1024)
        IN
        ProviderSized(r)
        => /\ Len(r.requested) <= calls
           /\ \A k \in 1..Len(r.requested) :
                 /\ r.requested[k] = Min(1024, total - 1024 * (k - 1))
                 /\ r.requested[k] >= 1
                 /\ r.requested[k] <= 1024
           /\ Len(r.requested) - Len(r.all_hex_data) \in {0, 1}
           /\ \A k \in 1..Len(r.all_hex_data) :
                 /\ r.all_hex_data[k].call = k - 1
                 /\ r.all_hex_data[k].len = r.requested[k]
           /\ ProviderReturned(r)
                => /\ Len(r.requested) = calls
                   /\ Len(r.all_hex_data) = calls
                   /\ SumSeq(r.requested) = total
           /\ (ProviderReturned(r) /\ r.pc # "slice")
                => bits_cache(r)[r.new_hashes[Len(r.new_hashes)]] =
                       StreamWindow(r.all_hex_data, Len(r.new_hashes) - 1, r.bits_per_question)

\* three requests, the last for the one byte left
C10_Witness ==
    \E p \in Procs :
        /\ ProviderReturned(run[p])
        /\ run[p].requested = <<1024, 1024, 1>>

\* the processes whose save_qrng_cache wrote the file
Writers == {p \in Procs : run[p].cache_saved = "ok"}

\* the entry of hash h in the file, under the bit width of run r: "none" when
\* the file has none
StoredKey(r, h) ==
    IF store.kind = "json" /\ h \in DOMAIN SubMap(store.map, bits_key(r))
    THEN store.map[bits_key(r)][h]
    ELSE -1

(* C11. Lost update under concurrent runs: two quantum runs interleave     *)
(* their load-modify-save cycles on the same file with no lock. A write    *)
(* replaces the file by the writer's own map, so after successful writes   *)
(* the file holds the map of one writer only (the last), whatever the      *)
(* other wrote in between. (The reachable loss is C11_Witness.)            *)
C11_LastWriterWins ==
    (Writers # {} /\ \A p \in Procs : run[p].cache_saved # "write_failed")
    => \E p \in Writers : store = JsonStore(run[p].qrng_cache)

\* both runs saved and finished normally; the file is the map of q alone:
\* an entry p persisted is missing from it, and another hash has in it a key
\* different from the one p used for its output
C11_Witness ==
    \E p, q \in Procs :
        /\ p # q
        /\ run[p].pc = "done" /\ run[p].outcome = "ok" /\ run[p].cache_saved = "ok"
        /\ run[q].pc = "done" /\ run[q].outcome = "ok" /\ run[q].cache_saved = "ok"
        /\ store = JsonStore(run[q].qrng_cache)
        /\ \E i \in 1..Len(run[p].comments) :
              StoredKey(run[p], run[p].question_hashes[i]) = -1
        /\ \E i \in 1..Len(run[p].comments) :
              /\ StoredKey(run[p], run[p].question_hashes[i]) # -1
              /\ StoredKey(run[p], run[p].question_hashes[i]) # run[p].random_numbers[i]

\* how a run ends when get_quantum_randomness_for_new_questions raises
ProviderFailures == {"config_error", "http_error", "not_success", "wrong_length"}

ProviderFailed(r) == r.pc = "done" /\ r.outcome \in ProviderFailures

\* the failed run sent no request after the failing one, has no numbers, no
\* output and no write, and its dict holds nothing the file did not give it
NothingFromProvider(r) ==
    /\ r.random_numbers = <<>>
    /\ r.output = <<>>
    /\ ~r.rendered
    /\ ~r.uploaded
    /\ r.cache_saved = "none"
    /\ bits_cache(r) = SubMap(r.loaded, bits_key(r))
    /\ r.outcome = "config_error" => r.requested = <<>>
    /\ r.outcome # "config_error"
         => /\ Len(r.requested) = Len(r.all_hex_data) + 1
            /\ Len(r.requested) <= r.api_calls_needed

(* C12. Entropy failure is atomic with respect to the cache: a quantum run *)
(* that fails inside the provider (no credential, an HTTP error, success   *)
(* false, a payload of another length; on the first call or on a later     *)
(* one) ends there: no request follows the failing one, no number is       *)
(* assigned, nothing is rendered or uploaded, the run never wrote the      *)
(* file, and the file changes only in a step in which some run calls       *)
(* save_qrng_cache; so the file is what it was when the run began.         *)
C12_EntropyFailureAtomic ==
    [][/\ \A p \in Procs :
             ProviderFailed(run'[p])
             => /\ NothingFromProvider(run'[p])
                /\ run'[p] # run[p] => store' = store
       /\ store' # store
            => \E q \in Procs : run[q].cache_saved = "none" /\ run'[q].cache_saved # "none"
      ]_vars

\* the second call failed after the first succeeded, beside a file with entries
C12_Witness ==
    \E p \in Procs :
        /\ ProviderFailed(run[p])
        /\ run[p].outcome = "wrong_length"
        /\ Len(run[p].all_hex_data) >= 1
        /\ StoreEntries(store) # {}

\* every hash of the batch is in the file with the number the run gave it
KeysInStore(r) ==
    \A i \in 1..Len(r.question_hashes) :
        <<bits_key(r), r.question_hashes[i], r.random_numbers[i]>> \in StoreEntries(store)

\* items i and j have different texts to which the cache read from the file
\* gives the same number
ReadSameKey(r, i, j) ==
    /\ r.comments[i] # r.comments[j]
    /\ r.question_hashes[i] \in DOMAIN SubMap(r.loaded, bits_key(r))
    /\ r.question_hashes[j] \in DOMAIN SubMap(r.loaded, bits_key(r))
    /\ r.loaded[bits_key(r)][r.question_hashes[i]] = r.loaded[bits_key(r)][r.question_hashes[j]]

ReadCollision(r) ==
    /\ r.use_quantum
    /\ r.cache_read = "ok"
    /\ \E i, j \in 1..Len(r.comments) : ReadSameKey(r, i, j)

(* C13 as claimed. A collision is persisted and permanent: when a quantum  *)
(* run aborts on a collision its numbers are in the file, and every        *)
(* quantum run that reads from the file a cache giving two of its texts    *)
(* the same number aborts on that collision.                               *)
C13_CollisionPermanent ==
    \A p \in Procs :
        LET r == run[p] IN
        /\ (r.use_quantum /\ r.outcome = "collision") => KeysInStore(r)
        /\ (ReadCollision(r) /\ r.pc = "done") => r.outcome = "collision"

(* C13 as amended. In quantum mode the new numbers are merged into the     *)
(* cache and the write is attempted before the collision check; when a run *)
(* aborts on a collision and its write did not fail (or it had nothing to  *)
(* write), its numbers are in the file; a quantum run that reads from the  *)
(* file a cache giving two of its texts the same number never renders: it  *)
(* gives both texts that number again and aborts on the collision, unless  *)
(* the provider fails first on a text the cache lacks.                     *)
C13_CollisionPersisted ==
    \A p \in Procs :
        LET r == run[p] IN
        /\ (r.use_quantum /\ Resolved(r) /\ Len(r.new_hashes) > 0) => r.cache_saved # "none"
        /\ (r.use_quantum /\ r.outcome = "collision" /\ r.cache_saved \in {"ok", "none"})
             => KeysInStore(r)
        /\ ReadCollision(r)
             => /\ ~r.rendered
                /\ r.output = <<>>
                /\ r.pc \notin {"render", "upload"}
                /\ r.pc = "done" => r.outcome \in {"collision"} \cup ProviderFailures
                /\ Resolved(r)
                     => \A i, j \in 1..Len(r.comments) :
                           ReadSameKey(r, i, j)
                           => /\ r.random_numbers[i] = r.loaded[bits_key(r)][r.question_hashes[i]]
                              /\ r.random_numbers[j] = r.random_numbers[i]

\* a run drew the same number for two texts, saved and aborted; the next run
\* read that cache back and aborted on the same two texts with the same number
C13_Witness ==
    \E p \in Procs :
        LET r == run[p] IN
        /\ prev.valid
        /\ \E k1, k2 \in prev.keys : k1[1] # k2[1] /\ k1[2] = k2[2]
        /\ r.loaded = prev.qrng_cache
        /\ ReadCollision(r)
        /\ r.outcome = "collision"
        /\ KeysInStore(r)
        /\ \A i \in 1..Len(r.comments) : <<r.comments[i], r.random_numbers[i]>> \in prev.keys

====
